---------------------------- MODULE Spec2Model ----------------------------
(***************************************************************************)
(* A model of provpy's core.py: the record model, the bundle (graph) with  *)
(* its ownership rules, the namespace merge that builds the prefix table   *)
(* of a document, and the PROV-JSON encoder.                               *)
(*                                                                         *)
(* Python objects are named by strings ("doc", "a1", "r1", ...); a Python  *)
(* dict is a function whose DOMAIN is its key set; Python's None is the    *)
(* value None.  Fields keep the names they have in core.py.                *)
(***************************************************************************)
EXTENDS Integers, Sequences, FiniteSets, TLC

VARIABLES
    bundles,            \* the PROVContainer and the Account objects
    records,            \* the Element and Relation objects
    defaultnamespace,   \* PROVContainer.defaultnamespace
    _nsdict,            \* PROVContainer._nsdict
    dictorder,          \* the order in which this interpreter iterates dict keys
    lastcall,           \* the last call made on the API, with its outcome
    mergesteps,         \* the PROVQname merges of the last _create_nsdict
    nencodes            \* number of to_provJSON calls made so far

vars == <<bundles, records, defaultnamespace, _nsdict, dictorder, lastcall,
          mergesteps, nencodes>>

-----------------------------------------------------------------------------
(* Bounds of the model.                                                    *)

\* records (elements and relations) that can be constructed
MaxRecords == 2
\* length a graph's element or relation list may reach
MaxList == 3
\* to_provJSON calls in one run
MaxEncodes == 2

-----------------------------------------------------------------------------
(* Python values.                                                          *)

None == "None"

\* a dict d with d[k] = v
DictSet(d, k, v) == [x \in DOMAIN d \cup {k} |-> IF x = k THEN v ELSE d[x]]

\* d1.update(d2)
DictUpdate(d1, d2) ==
    [x \in DOMAIN d1 \cup DOMAIN d2 |-> IF x \in DOMAIN d2 THEN d2[x] ELSE d1[x]]

DictValues(d) == {d[k] : k \in DOMAIN d}

EmptyDict == [x \in {} |-> None]

\* d.keys() / d.items(): the keys of d in the interpreter's iteration order
DictKeys(order, d) == SelectSeq(order, LAMBDA k : k \in DOMAIN d)

SeqToSet(s) == {s[i] : i \in DOMAIN s}

-----------------------------------------------------------------------------
(* PROVQname (core.py 56-106) and PROVNamespace (109-116).                 *)

PROVQname(name, prefix, namespacename, localname) ==
    [name |-> name, prefix |-> prefix, namespacename |-> namespacename,
     localname |-> localname]

\* PROVNamespace(prefix, namespacename)[localname]
PROVNamespace(prefix, namespacename, localname) ==
    PROVQname(namespacename \o localname, prefix, namespacename, localname)

\* Record.__init__ on a string identifier: PROVQname(identifier, localname=identifier)
StrQname(identifier) == PROVQname(identifier, None, None, identifier)

\* the identifier field of a record constructed with identifier=None
NoQname == PROVQname(None, None, None, None)

XSD_URI == "http://www.w3.org/2001/XMLSchema-datatypes#"
PROV_URI == "http://www.w3.org/ns/prov-dm/"

\* Bundle._implicitnamespace
_implicitnamespace == [p \in {"prov", "xsd"} |-> IF p = "prov" THEN PROV_URI ELSE XSD_URI]

\* PROVQname.qname(nsdict): the loop keeps the last matching entry in the
\* dict's iteration order.
qname(self, nsdict, order) ==
    LET items == DictKeys(order, nsdict)
        loop[i \in 0..Len(items)] ==
            IF i = 0 THEN self.name
            ELSE LET prefix == items[i]
                 IN  IF self.namespacename = nsdict[prefix]
                     THEN IF prefix # "default"
                          THEN IF self.localname # None
                               THEN prefix \o ":" \o self.localname
                               ELSE loop[i - 1]
                          ELSE self.localname
                     ELSE loop[i - 1]
        rt == loop[Len(items)]
    IN  IF self.namespacename \notin DictValues(nsdict) /\ self.prefix # None
        THEN self.prefix \o ":" \o self.localname
        ELSE rt

-----------------------------------------------------------------------------
(* The namespace merge of PROVContainer (core.py 998-1054).                *)
(*                                                                         *)
(* The build is threaded through a record st:                              *)
(*   nsdict   self._nsdict                                                 *)
(*   key      self._auto_ns_key                                            *)
(*   visited  self._visitedrecord: one entry per call, what "x in list"    *)
(*            compares                                                     *)
(*   raised   an exception (the KeyError of line 1035) is propagating      *)
(*   steps    one entry per PROVQname merged, for the properties           *)

\* An entry of a record's _attributelist, or any object handed to
\* _merge_namespace: t is its Python type, v the object.
Obj(t, v) == [v |-> v, t |-> t]

\* What "attr in self._visitedrecord" compares: a PROVQname by its name
\* (__eq__, line 72), a dict by its value, everything else by identity.
Token(obj) ==
    CASE obj.t = "PROVQname" -> <<"PROVQname", obj.v.name>>
      [] obj.t \in {"dict", "list"} -> <<obj.t, ToString(obj.v)>>
      [] OTHER               -> <<obj.t, obj.v>>

\* PROVContainer._generate_prefix
RECURSIVE _generate_prefix(_, _)
_generate_prefix(nsdict, key) ==
    LET prefix == "ns" \o ToString(key)
    IN  IF prefix \in DOMAIN nsdict
        THEN _generate_prefix(nsdict, key + 1)
        ELSE [prefix |-> prefix, key |-> key + 1]

\* lines 1036-1037: the generated prefix g is bound to q's namespace
BindGenerated(st, q, g) ==
    [st EXCEPT !.nsdict = DictSet(st.nsdict, g.prefix, q.namespacename),
               !.key = g.key,
               !.steps = Append(st.steps,
                   [q |-> q, before |-> st.nsdict,
                    after |-> DictSet(st.nsdict, g.prefix, q.namespacename),
                    raised |-> FALSE])]

\* The "isinstance(obj, PROVQname)" block of _merge_namespace (1031-1039).
MergeQname(st, q) ==
    LET log(after, raised) ==
            Append(st.steps, [q |-> q, before |-> st.nsdict, after |-> after,
                              raised |-> raised])
    IN  IF q.prefix = None THEN st
        ELSE IF q.prefix \in DOMAIN st.nsdict
        THEN IF q.namespacename # st.nsdict[q.prefix]
             THEN IF "default" \notin DOMAIN st.nsdict
                  THEN \* self._nsdict["default"] raises KeyError
                       [st EXCEPT !.raised = TRUE, !.steps = log(st.nsdict, TRUE)]
                  ELSE IF st.nsdict["default"] # q.namespacename
                  THEN BindGenerated(st, q, _generate_prefix(st.nsdict, st.key))
                  ELSE [st EXCEPT !.steps = log(st.nsdict, FALSE)]
             ELSE [st EXCEPT !.steps = log(st.nsdict, FALSE)]
        ELSE IF q.namespacename \notin DOMAIN st.nsdict
        THEN LET after == DictSet(st.nsdict, q.prefix, q.namespacename)
             IN  [st EXCEPT !.nsdict = after, !.steps = log(after, FALSE)]
        ELSE [st EXCEPT !.steps = log(st.nsdict, FALSE)]

RECURSIVE _merge_namespace(_, _, _, _, _)
RECURSIVE MergeAll(_, _, _, _, _, _)

\* "for x in objs: [if not x in self._visitedrecord:] self._merge_namespace(x)"
MergeAll(B, R, order, st, objs, checked) ==
    IF objs = <<>> \/ st.raised THEN st
    ELSE LET x == Head(objs)
             st1 == IF checked /\ Token(x) \in SeqToSet(st.visited) THEN st
                    ELSE _merge_namespace(B, R, order, st, x)
         IN  MergeAll(B, R, order, st1, Tail(objs), checked)

\* the objects _merge_namespace walks for a Bundle, in the order of 1017-1030;
\* the first n are walked without a visited check.
BundleNamespaces(B, order, g) ==
    LET d == B[g]._namespacedict
        ks == DictKeys(order, d)
    IN  [i \in 1..Len(ks) |->
            Obj("PROVQname", PROVQname(d[ks[i]], ks[i], d[ks[i]], None))]

RECURSIVE RecordAttrs(_, _)
RecordAttrs(R, rs) ==
    IF rs = <<>> THEN <<>> ELSE R[Head(rs)]._attributelist \o RecordAttrs(R, Tail(rs))

BundleMembers(B, R, g) ==
    RecordAttrs(R, B[g]._elementlist) \o RecordAttrs(R, B[g]._relationlist)
        \o [i \in 1..Len(B[g]._accountlist) |-> Obj("Bundle", B[g]._accountlist[i])]

\* the items of a dict: key, value, key, value, ...
RECURSIVE DictItems(_, _)
DictItems(d, ks) ==
    IF ks = <<>> THEN <<>> ELSE <<Head(ks), d[Head(ks)]>> \o DictItems(d, Tail(ks))

\* A faulty variant of _merge_namespace: the sub-graphs of a graph are walked
\* without looking at the visited list.
_merge_namespace_unchecked(B, R, order, st, obj) ==
    LET st0 == [st EXCEPT !.visited = Append(@, Token(obj))]
    IN  CASE obj.t = "Bundle" ->
               MergeAll(B, R, order,
                   MergeAll(B, R, order,
                       MergeAll(B, R, order, st0,
                                BundleNamespaces(B, order, obj.v), FALSE),
                       RecordAttrs(R, B[obj.v]._elementlist)
                           \o RecordAttrs(R, B[obj.v]._relationlist), TRUE),
                   [i \in 1..Len(B[obj.v]._accountlist) |->
                       Obj("Bundle", B[obj.v]._accountlist[i])], FALSE)
          [] obj.t = "PROVQname" -> MergeQname(st0, obj.v)
          [] obj.t = "list" -> MergeAll(B, R, order, st0, obj.v, FALSE)
          [] obj.t = "dict" ->
               MergeAll(B, R, order, st0,
                        DictItems(obj.v, DictKeys(order, obj.v)), FALSE)
          [] OTHER -> st0

\* PROVContainer._merge_namespace(obj)
_merge_namespace(B, R, order, st, obj) ==
    LET st0 == [st EXCEPT !.visited = Append(@, Token(obj))]
    IN  CASE obj.t = "Bundle" ->
               MergeAll(B, R, order,
                        MergeAll(B, R, order, st0, BundleNamespaces(B, order, obj.v), FALSE),
                        BundleMembers(B, R, obj.v), TRUE)
          [] obj.t = "PROVQname" -> MergeQname(st0, obj.v)
          [] obj.t = "list" -> MergeAll(B, R, order, st0, obj.v, FALSE)
          [] obj.t = "dict" ->
               MergeAll(B, R, order, st0,
                        DictItems(obj.v, DictKeys(order, obj.v)), FALSE)
          [] OTHER -> st0

\* self._nsdict as _create_nsdict seeds it (1000-1004): it is only replaced
\* when there is a default namespace, and updated in place otherwise
SeedNsdict(B, defaultns, old) ==
    DictUpdate(DictUpdate(IF defaultns # None THEN [p \in {"default"} |-> defaultns]
                          ELSE old,
                          _implicitnamespace),
               B["doc"]._namespacedict)

\* A faulty variant of DropDefault: the prefixes of the default namespace stay.
DropDefault_keep(st, defaultns) == st

\* the loop that ends _create_nsdict (1007-1010)
DropDefault(st, defaultns) ==
    IF st.raised THEN st
    ELSE [st EXCEPT !.nsdict =
            [p \in {k \in DOMAIN st.nsdict :
                       ~(st.nsdict[k] = defaultns /\ k # "default")} |-> st.nsdict[p]]]

\* PROVContainer._create_nsdict: old is self._nsdict as the last call left it.
_create_nsdict(B, R, order, defaultns, old) ==
    DropDefault(
        _merge_namespace(B, R, order,
            [nsdict |-> SeedNsdict(B, defaultns, old), key |-> 0, visited |-> <<>>,
             raised |-> FALSE, steps |-> <<>>],
            Obj("Bundle", "doc")),
        defaultns)

-----------------------------------------------------------------------------
(* Objects: records (core.py 123-357) and bundles (679-696, 981-988,       *)
(* 1072-1091).                                                             *)

Accounts == {"a1", "a2"}
Bundles == {"doc"} \cup Accounts
RecordIds == {"r" \o ToString(i) : i \in 1..MaxRecords}

ElementClasses == {"Entity", "Activity", "Agent", "Note"}
RelationClasses == {"wasGeneratedBy"}

\* An identifier argument as the caller gives it: a str, a PROVQname or None,
\* with v the PROVQname that Record.__init__ stores for it (126-135).
StrIdent(s) == Obj("str", StrQname(s))
QnIdent(q) == Obj("PROVQname", q)
NoIdent == Obj("None", NoQname)

\* an object that has not been constructed yet
NoRecord ==
    [alive |-> FALSE, cls |-> None, identifier |-> NoQname, account |-> None,
     attributes |-> EmptyDict, _attributelist |-> <<>>, entity |-> None,
     activity |-> None, _idJSON |-> None, _json |-> EmptyDict]

\* Record.__init__ + Element.__init__ / Relation.__init__ / wasGeneratedBy.__init__
NewRecord(cls, identifier, account, entity, activity) ==
    [alive |-> TRUE, cls |-> cls, identifier |-> identifier.v, account |-> account,
     attributes |-> EmptyDict,
     _attributelist |->
        <<Obj(IF identifier.t = "None" THEN "None" ELSE "PROVQname",
              IF identifier.t = "None" THEN None ELSE identifier.v),
          Obj(IF account = None THEN "None" ELSE "Bundle", account),
          Obj("dict", EmptyDict)>>
        \o (CASE cls = "Activity" -> <<Obj("None", None), Obj("None", None)>>
              [] cls \in RelationClasses ->
                    <<Obj("Record", entity), Obj("Record", activity), Obj("None", None)>>
              [] OTHER -> <<>>),
     entity |-> entity, activity |-> activity, _idJSON |-> None,
     _json |-> EmptyDict]

NoBundle ==
    [alive |-> FALSE, identifier |-> NoQname, asserter |-> NoQname,
     parentaccount |-> None, account |-> None, _elementlist |-> <<>>,
     _relationlist |-> <<>>, _accountlist |-> <<>>, _namespacedict |-> EmptyDict,
     _elementkey |-> 0, _relationkey |-> 0, _auto_ns_key |-> 0,
     _provcontainer |-> EmptyDict, _idJSON |-> None]

\* Bundle.__init__, after PROVContainer.__init__ or Account.__init__ set the
\* identifier (a container gets PROVQname("default", localname="default"), 694)
NewBundle(identifier, asserter, parentaccount) ==
    [NoBundle EXCEPT !.alive = TRUE, !.identifier = identifier,
                     !.asserter = asserter, !.parentaccount = parentaccount,
                     !.account = parentaccount]

IsElement(R, r) == R[r].cls \in ElementClasses
IsRelation(R, r) == R[r].cls \in RelationClasses

\* the next record object to be constructed
FreeRecord(R) == CHOOSE r \in DOMAIN R :
    /\ ~R[r].alive
    /\ \A i \in 1..Cardinality(DOMAIN R) : ("r" \o ToString(i) = r) =>
           \A j \in 1..(i - 1) : R["r" \o ToString(j)].alive

HasFree(R) == \E r \in DOMAIN R : ~R[r].alive

-----------------------------------------------------------------------------
(* Bundle.add (698-725).  The result is the heap after the call and        *)
(* whether the call raised.                                                *)

Heap(B, R, raised) == [B |-> B, R |-> R, raised |-> raised]

InSeq(x, s) == \E i \in DOMAIN s : s[i] = x

\* A faulty variant of add: a record or account owned by another graph is not handed
\* to its owner but attached to this graph, which becomes its owner.
add_reparent(B, R, self, record) ==
    IF record \in DOMAIN R
    THEN LET fld == IF IsElement(R, record) THEN "_elementlist" ELSE "_relationlist"
         IN  IF InSeq(record, B[self][fld]) THEN Heap(B, R, FALSE)
             ELSE Heap([B EXCEPT ![self][fld] = Append(@, record)],
                       [R EXCEPT ![record].account = self], FALSE)
    ELSE IF InSeq(record, B[self]._accountlist) THEN Heap(B, R, FALSE)
    ELSE Heap([B EXCEPT ![self]._accountlist = Append(@, record),
                        ![record].parentaccount = self], R, FALSE)

RECURSIVE add(_, _, _, _)
add(B, R, self, record) ==
    IF record \in DOMAIN R /\ IsElement(R, record)
    THEN IF R[record].account = None
         THEN Heap([B EXCEPT ![self]._elementlist = Append(@, record)],
                   [R EXCEPT ![record].account = self], FALSE)
         ELSE IF B[R[record].account].identifier.name # B[self].identifier.name
         THEN add(B, R, R[record].account, record)
         ELSE IF ~InSeq(record, B[self]._elementlist)
         THEN Heap([B EXCEPT ![self]._elementlist = Append(@, record)], R, FALSE)
         ELSE Heap(B, R, FALSE)
    ELSE IF record \in DOMAIN R /\ IsRelation(R, record)
    THEN IF R[record].account = None
         THEN Heap([B EXCEPT ![self]._relationlist = Append(@, record)],
                   [R EXCEPT ![record].account = self], FALSE)
         ELSE IF B[R[record].account].identifier.name # B[self].identifier.name
         THEN add(B, R, R[record].account, record)
         ELSE IF ~InSeq(record, B[self]._elementlist)   \* line 716 tests _elementlist
         THEN Heap([B EXCEPT ![self]._relationlist = Append(@, record)], R, FALSE)
         ELSE Heap(B, R, FALSE)
    ELSE IF record \in Accounts
    THEN IF B[record].parentaccount = None
         THEN Heap([B EXCEPT ![self]._accountlist = Append(@, record),
                             ![record].parentaccount = self], R, FALSE)
         ELSE IF B[B[record].parentaccount].identifier.name # B[self].identifier.name
         THEN IF B[record].account = None
              THEN Heap(B, R, TRUE)      \* None.add: AttributeError
              ELSE add(B, R, B[record].account, record)
         ELSE IF ~InSeq(record, B[self]._accountlist)
         THEN Heap([B EXCEPT ![self]._accountlist = Append(@, record)], R, FALSE)
         ELSE Heap(B, R, FALSE)
    ELSE Heap(B, R, FALSE)

-----------------------------------------------------------------------------
(* Identifier generation and validation (766-823).                         *)

\* what "x._idJSON == identifier" yields for an identifier argument: a str
\* compares as a string, None matches an unset _idJSON, and a PROVQname never
\* equals a str (PROVQname.__eq__ is only reached as the reflected operand
\* and then compares names with a non-PROVQname: False).
IdMatches(idJSON, identifier) ==
    CASE identifier.t = "str"  -> idJSON = identifier.v.name
      [] identifier.t = "None" -> idJSON = None
      [] OTHER                 -> FALSE

\* Bundle._validate_id
_validate_id(B, R, self, identifier) ==
    /\ \A i \in DOMAIN B[self]._elementlist :
          ~IdMatches(R[B[self]._elementlist[i]]._idJSON, identifier)
    /\ \A i \in DOMAIN B[self]._relationlist :
          ~IdMatches(R[B[self]._relationlist[i]]._idJSON, identifier)

\* A faulty variant of _generate_identifier: the counter is left at the value
\* the identifier was made from.
RECURSIVE _generate_identifier_nostep(_, _, _, _, _)
_generate_identifier_nostep(B, R, self, stem, key) ==
    LET identifier == stem \o ToString(key)
    IN  IF ~_validate_id(B, R, self, StrIdent(identifier))
        THEN _generate_identifier_nostep(B, R, self, stem, key + 1)
        ELSE [identifier |-> identifier, key |-> key]

\* Bundle._generate_rlat_identifier / _generate_elem_identifier: stem is
\* "_:RLAT" or "_:ELEM", key the counter; the result carries the new counter.
RECURSIVE _generate_identifier(_, _, _, _, _)
_generate_identifier(B, R, self, stem, key) ==
    LET identifier == stem \o ToString(key)
    IN  IF ~_validate_id(B, R, self, StrIdent(identifier))
        THEN _generate_identifier(B, R, self, stem, key + 1)
        ELSE [identifier |-> identifier, key |-> key + 1]

\* lines 769-773 / 775-779 for one record: g is the identifier generated
\* for it when it has none
SetRecordId(H, self, r, g, nsdict, order) ==
    IF H.R[r].identifier = NoQname
    THEN [H EXCEPT !.R[r]._idJSON = g.identifier,
                   !.B[self] = IF IsElement(H.R, r)
                               THEN [@ EXCEPT !._elementkey = g.key]
                               ELSE [@ EXCEPT !._relationkey = g.key]]
    ELSE [H EXCEPT !.R[r]._idJSON = qname(H.R[r].identifier, nsdict, order)]

\* the two loops of _generate_idJSON over self._elementlist and
\* self._relationlist (768-779)
RECURSIVE GenerateRecordIds(_, _, _, _, _)
GenerateRecordIds(H, self, rs, nsdict, order) ==
    IF rs = <<>> THEN H
    ELSE GenerateRecordIds(
             SetRecordId(H, self, Head(rs),
                 _generate_identifier(H.B, H.R, self,
                     IF IsElement(H.R, Head(rs)) THEN "_:ELEM" ELSE "_:RLAT",
                     IF IsElement(H.R, Head(rs)) THEN H.B[self]._elementkey
                     ELSE H.B[self]._relationkey),
                 nsdict, order),
             self, Tail(rs), nsdict, order)

GenerateElementIds(H, self, nsdict, order) ==
    GenerateRecordIds(H, self, H.B[self]._elementlist, nsdict, order)

GenerateRelationIds(H, self, nsdict, order) ==
    GenerateRecordIds(H, self, H.B[self]._relationlist, nsdict, order)

RECURSIVE _generate_idJSON(_, _, _, _)
RECURSIVE GenerateAccountIds(_, _, _, _)

\* the loop of _generate_idJSON over self._accountlist (780-783)
GenerateAccountIds(H, as, nsdict, order) ==
    IF as = <<>> THEN H
    ELSE GenerateAccountIds(
             _generate_idJSON(
                 [H EXCEPT !.B[Head(as)]._idJSON =
                               qname(H.B[Head(as)].identifier, nsdict, order)],
                 Head(as), nsdict, order),
             Tail(as), nsdict, order)

GenerateSubIds(H, self, nsdict, order) ==
    GenerateAccountIds(H, H.B[self]._accountlist, nsdict, order)

\* Bundle._generate_idJSON
_generate_idJSON(H, self, nsdict, order) ==
    GenerateSubIds(
        GenerateRelationIds(GenerateElementIds(H, self, nsdict, order),
                            self, nsdict, order),
        self, nsdict, order)

-----------------------------------------------------------------------------
(* The encoder (231-390, 739-764, 1056-1069, 1103-1120).                   *)

\* the key of the bundle's output under which a record class is emitted
Keyword(cls) ==
    CASE cls \in {"Entity", "Agent"} -> "entity"
      [] cls = "Activity" -> "activity"
      [] cls = "Note" -> "note"
      [] OTHER -> cls

\* the id under which Element.to_provJSON / Relation.to_provJSON emit (233-237)
EmitId(R, r, nsdict, order) ==
    IF R[r].identifier # NoQname
    THEN qname(R[r].identifier, nsdict, order)
    ELSE IF R[r]._idJSON = None THEN "NoID" ELSE R[r]._idJSON

\* what is emitted under the id: the attributes, and for a wasGeneratedBy the
\* _idJSON of the two records it refers to (385-386)
EmitAttrs(R, r) ==
    IF R[r].cls = "wasGeneratedBy"
    THEN [k \in {"prov:entity", "prov:activity"} |->
             IF k = "prov:entity" THEN R[R[r].entity]._idJSON
             ELSE R[R[r].activity]._idJSON]
    ELSE EmptyDict

\* Element.to_provJSON / Relation.to_provJSON and the subclass's part: the
\* record after the call
RecordToProvJSON(R, r, idJSON) ==
    [R[r] EXCEPT !._idJSON = idJSON, !._json = DictSet(@, idJSON, EmitAttrs(R, r))]

\* self._provcontainer[key].update(d), the key created when missing
SectionUpdate(pc, key, d) ==
    DictSet(pc, key, DictUpdate(IF key \in DOMAIN pc THEN pc[key] ELSE EmptyDict, d))

\* lines 743-746: an Agent's identifier is appended to the 'agent' list
AgentIndex(pc, rec) ==
    IF rec.cls = "Agent"
    THEN DictSet(pc, "agent",
                 Append(IF "agent" \in DOMAIN pc THEN pc["agent"] ELSE <<>>,
                        rec.identifier))
    ELSE pc

\* one turn of the loops of Bundle.to_provJSON over the elements and
\* relations (742-757): rec is the record after its own to_provJSON
EncodeRecord(H, self, r, rec) ==
    [H EXCEPT !.R[r] = rec,
              !.B[self]._provcontainer =
                  SectionUpdate(AgentIndex(@, rec), Keyword(rec.cls), rec._json)]

RECURSIVE EncodeRecords(_, _, _, _, _)
EncodeRecords(H, self, rs, nsdict, order) ==
    IF rs = <<>> THEN H
    ELSE EncodeRecords(
             EncodeRecord(H, self, Head(rs),
                 RecordToProvJSON(H.R, Head(rs), EmitId(H.R, Head(rs), nsdict, order))),
             self, Tail(rs), nsdict, order)

EncodeElements(H, self, nsdict, order) ==
    EncodeRecords(H, self, H.B[self]._elementlist, nsdict, order)

EncodeRelations(H, self, nsdict, order) ==
    EncodeRecords(H, self, H.B[self]._relationlist, nsdict, order)

\* Account.to_provJSON after its Bundle.to_provJSON (1106): the asserter
WithAsserter(H, a, nsdict, order) ==
    [H EXCEPT !.B[a]._provcontainer =
                  DictSet(@, "asserter", qname(H.B[a].asserter, nsdict, order))]

\* the fragment of account a in the 'account' section acc, updated with what
\* Account.to_provJSON returned (759-763)
AccountSection(acc, key, apc) ==
    DictSet(acc, key, DictUpdate(IF key \in DOMAIN acc THEN acc[key] ELSE EmptyDict, apc))

\* lines 759-763 for one account: H is the heap after the account's to_provJSON
EncodeAccount(H, self, a) ==
    [H EXCEPT !.B[self]._provcontainer =
        DictSet(@, "account",
            AccountSection(IF "account" \in DOMAIN @ THEN @["account"] ELSE EmptyDict,
                           H.B[a]._idJSON, H.B[a]._provcontainer))]

RECURSIVE BundleToProvJSON(_, _, _, _)
RECURSIVE EncodeAccounts(_, _, _, _, _)

\* the loop of Bundle.to_provJSON over the accounts (758-763), each encoded
\* by Account.to_provJSON (1103-1120)
EncodeAccounts(H, self, as, nsdict, order) ==
    IF as = <<>> THEN H
    ELSE EncodeAccounts(
             EncodeAccount(
                 WithAsserter(BundleToProvJSON(H, Head(as), nsdict, order),
                              Head(as), nsdict, order),
                 self, Head(as)),
             self, Tail(as), nsdict, order)

EncodeSubAccounts(H, self, nsdict, order) ==
    EncodeAccounts(H, self, H.B[self]._accountlist, nsdict, order)

\* Bundle.to_provJSON
BundleToProvJSON(H, self, nsdict, order) ==
    EncodeSubAccounts(
        EncodeRelations(
            EncodeElements(_generate_idJSON(H, self, nsdict, order),
                           self, nsdict, order),
            self, nsdict, order),
        self, nsdict, order)

\* lines 1060-1068: the 'prefix' section of the container's output
PrefixSection(nsdict, defaultns) ==
    IF defaultns # None /\ "default" \notin DOMAIN nsdict
    THEN DictSet(nsdict, "default", defaultns)
    ELSE nsdict

\* the outcome of PROVContainer.to_provJSON once Bundle.to_provJSON left heap H
Encoded(H, st, defaultns) ==
    [B |-> [H.B EXCEPT !["doc"]._provcontainer =
                          DictSet(@, "prefix", PrefixSection(st.nsdict, defaultns))],
     R |-> H.R, nsdict |-> st.nsdict, steps |-> st.steps, raised |-> FALSE]

\* PROVContainer.to_provJSON after _create_nsdict returned (or raised) with st
EncodeWith(B, R, order, defaultns, st) ==
    IF st.raised
    THEN [B |-> [B EXCEPT !["doc"]._auto_ns_key = st.key], R |-> R,
          nsdict |-> st.nsdict, steps |-> st.steps, raised |-> TRUE]
    ELSE Encoded(BundleToProvJSON(
                     Heap([B EXCEPT !["doc"]._auto_ns_key = st.key], R, FALSE),
                     "doc", st.nsdict, order),
                 st, defaultns)

\* PROVContainer.to_provJSON: the heap, self._nsdict and the merge log after
\* the call, and whether it raised
to_provJSON(B, R, order, defaultns, old) ==
    EncodeWith(B, R, order, defaultns, _create_nsdict(B, R, order, defaultns, old))

-----------------------------------------------------------------------------
(* The calls a program makes, as actions.                                  *)

\* a call: the method, the object it is called on, its arguments (strings; for
\* add, the record and the record's owner before the call), what it returned
\* and whether it raised
Call(op, self, args, rt, raised) ==
    [op |-> op, self |-> self, args |-> args, rt |-> rt, raised |-> raised]

\* Entity(identifier, account=account) and the other element classes (220-229):
\* an element without identifier raises
Construct_Element(cls, identifier, account) ==
    /\ HasFree(records)
    /\ account # None => bundles[account].alive
    /\ LET r == FreeRecord(records)
       IN  IF identifier.t = "None"
           THEN /\ lastcall' = Call(cls, None, <<None>>, None, TRUE)
                /\ UNCHANGED records
           ELSE /\ records' = [records EXCEPT ![r] =
                                  NewRecord(cls, identifier, account, None, None)]
                /\ lastcall' = Call(cls, r, <<identifier.v.name>>, r, FALSE)
    /\ UNCHANGED <<bundles, defaultnamespace, _nsdict, dictorder, mergesteps, nencodes>>

\* wasGeneratedBy(entity, activity, identifier, account=account) (363-371)
Construct_Relation(cls, identifier, entity, activity, account) ==
    /\ HasFree(records)
    /\ account # None => bundles[account].alive
    /\ records[entity].alive /\ records[activity].alive
    /\ LET r == FreeRecord(records)
       IN  /\ records' = [records EXCEPT ![r] =
                             NewRecord(cls, identifier, account, entity, activity)]
           /\ lastcall' = Call(cls, r, <<identifier.v.name>>, r, FALSE)
    /\ UNCHANGED <<bundles, defaultnamespace, _nsdict, dictorder, mergesteps, nencodes>>

\* Account(identifier, asserter, parentaccount) (1074-1091)
Construct_Account(a, identifier, asserter, parentaccount) ==
    /\ ~bundles[a].alive
    /\ parentaccount # None => bundles[parentaccount].alive
    /\ bundles' = [bundles EXCEPT ![a] = NewBundle(identifier, asserter, parentaccount)]
    /\ lastcall' = Call("Account", a, <<identifier.name>>, a, FALSE)
    /\ UNCHANGED <<records, defaultnamespace, _nsdict, dictorder, mergesteps, nencodes>>

Alive(x) == IF x \in DOMAIN records THEN records[x].alive ELSE bundles[x].alive

Owner(B, R, x) == IF x \in DOMAIN R THEN R[x].account ELSE B[x].parentaccount

ListsBounded(B) ==
    \A g \in Bundles : /\ Len(B[g]._elementlist) <= MaxList
                       /\ Len(B[g]._relationlist) <= MaxList
                       /\ Len(B[g]._accountlist) <= MaxList

\* the heap H a call left becomes the state
Commit(H, op, self, args, rt) ==
    /\ ListsBounded(H.B)
    /\ bundles' = H.B
    /\ records' = H.R
    /\ lastcall' = Call(op, self, args, rt, H.raised)

\* self.add(record)
Call_add(self, record) ==
    /\ bundles[self].alive /\ Alive(record)
    /\ Commit(add(bundles, records, self, record), "add", self,
              <<record, Owner(bundles, records, record)>>, None)
    /\ UNCHANGED <<defaultnamespace, _nsdict, dictorder, mergesteps, nencodes>>

\* self.add_entity(identifier, account=account), add_activity, add_agent,
\* add_note (825-859): cls is the class the method constructs
Call_add_element(self, cls, identifier, account) ==
    /\ bundles[self].alive
    /\ account # None => bundles[account].alive
    /\ HasFree(records)
    /\ IF ~_validate_id(bundles, records, self, identifier) \/ identifier.t = "None"
       THEN /\ lastcall' = Call("add_" \o cls, self, <<identifier.v.name>>, None, TRUE)
            /\ UNCHANGED <<bundles, records>>
       ELSE Commit(add(bundles,
                       [records EXCEPT ![FreeRecord(records)] =
                           NewRecord(cls, identifier, account, None, None)],
                       self, FreeRecord(records)),
                   "add_" \o cls, self, <<identifier.v.name>>, FreeRecord(records))
    /\ UNCHANGED <<defaultnamespace, _nsdict, dictorder, mergesteps, nencodes>>

\* self.add_wasGeneratedBy(entity, activity, identifier, account=account)
\* (861-869): the relation is only built in the else of "identifier is not None"
Call_add_wasGeneratedBy(self, entity, activity, identifier, account) ==
    /\ bundles[self].alive
    /\ account # None => bundles[account].alive
    /\ records[entity].alive /\ records[activity].alive
    /\ HasFree(records)
    /\ IF identifier.t # "None"
       THEN /\ lastcall' = Call("add_wasGeneratedBy", self, <<identifier.v.name>>, None,
                                ~_validate_id(bundles, records, self, identifier))
            /\ UNCHANGED <<bundles, records>>
       ELSE Commit(add(bundles,
                       [records EXCEPT ![FreeRecord(records)] =
                           NewRecord("wasGeneratedBy", identifier, account, entity,
                                     activity)],
                       self, FreeRecord(records)),
                   "add_wasGeneratedBy", self, <<None>>, FreeRecord(records))
    /\ UNCHANGED <<defaultnamespace, _nsdict, dictorder, mergesteps, nencodes>>

\* self.add_account(identifier, asserter) (961-964): Account(identifier,
\* parentaccount) hands the second argument to Account.__init__ as the asserter
Call_add_account(self, a, identifier, asserter) ==
    /\ bundles[self].alive /\ ~bundles[a].alive
    /\ Commit(add([bundles EXCEPT ![a] = NewBundle(identifier, asserter, None)],
                  records, self, a),
              "add_account", self, <<identifier.name>>, None)
    /\ UNCHANGED <<defaultnamespace, _nsdict, dictorder, mergesteps, nencodes>>

\* Bundle.empty (727-737)
empty(b) ==
    [b EXCEPT !._provcontainer = EmptyDict, !._elementlist = <<>>,
              !._relationlist = <<>>, !._namespacedict = EmptyDict,
              !._accountlist = <<>>, !._elementkey = 0, !._relationkey = 0,
              !._auto_ns_key = 0, !._idJSON = None]

Call_empty(self) ==
    /\ bundles[self].alive
    /\ bundles' = [bundles EXCEPT ![self] = empty(@)]
    /\ lastcall' = Call("empty", self, <<>>, None, FALSE)
    /\ UNCHANGED <<records, defaultnamespace, _nsdict, dictorder, mergesteps, nencodes>>

\* Bundle.add_namespace (785-791)
add_namespace(b, prefix, uri) ==
    [b EXCEPT !._namespacedict = DictSet(@, prefix, uri)]

\* 'prefix is "default"' (788) compares objects, not strings: it holds when
\* the argument is the very str object of that literal, which the interpreter
\* decides (an interned "default" is, a str built at run time is not).
IsDefaultLiteral(prefix, interned) == prefix = "default" /\ interned

\* self.add_namespace(prefix, uri), interned telling whether the prefix
\* argument is an interned str
Call_add_namespace(self, prefix, interned, uri) ==
    /\ bundles[self].alive
    /\ IF IsDefaultLiteral(prefix, interned)
       THEN /\ lastcall' = Call("add_namespace", self, <<prefix, uri>>, None, TRUE)
            /\ UNCHANGED bundles
       ELSE /\ bundles' = [bundles EXCEPT ![self] = add_namespace(@, prefix, uri)]
            /\ lastcall' = Call("add_namespace", self, <<prefix, uri>>, None, FALSE)
    /\ UNCHANGED <<records, defaultnamespace, _nsdict, dictorder, mergesteps, nencodes>>

\* PROVContainer.set_default_namespace (990-992)
Call_set_default_namespace(uri) ==
    /\ defaultnamespace' = uri
    /\ lastcall' = Call("set_default_namespace", "doc", <<>>, None, FALSE)
    /\ UNCHANGED <<bundles, records, _nsdict, dictorder, mergesteps, nencodes>>

\* the outcome E of an encode becomes the state
CommitEncode(E) ==
    /\ bundles' = E.B
    /\ records' = E.R
    /\ _nsdict' = E.nsdict
    /\ mergesteps' = E.steps
    /\ lastcall' = Call("to_provJSON", "doc", <<>>, None, E.raised)

\* PROVContainer.to_provJSON()
Call_to_provJSON ==
    /\ nencodes < MaxEncodes
    /\ CommitEncode(to_provJSON(bundles, records, dictorder, defaultnamespace, _nsdict))
    /\ nencodes' = nencodes + 1
    /\ UNCHANGED <<defaultnamespace, dictorder>>

-----------------------------------------------------------------------------
(* The document specification: records with string identifiers or none and *)
(* accounts are built, attached, emptied and encoded.                      *)

URI_A == "http://a/"
URI_B == "http://b/"
URI_C == "http://c/"

\* every key a prefix table of the model can hold
PrefixKeys == <<"ex", "ns0", "ns1", "ns2", "ns3", "ns4", "prov", "xsd">>

\* The iteration order of a dict depends on the hashes of its keys; the model
\* takes "default" to come first or last.
DictOrders == {<<"default">> \o PrefixKeys, PrefixKeys \o <<"default">>}

\* the identifier of account a: accounts of one document carry different
\* identifiers, none of them the container's own "default"
AccountIdentifier(a) == StrQname("acc_" \o a)

Asserter == StrQname("asserter")

ElementIdents == {NoIdent, StrIdent("e1"), StrIdent("e2")}
RelationIdents == {NoIdent, StrIdent("e1")}
DocElementClasses == {"Entity", "Agent"}
DocAccounts == {"a1"}
DocBundles == {"doc"} \cup DocAccounts

\* the state after PROVContainer(), rs being the records the run may construct
InitHeap(rs, orders, defaults, tables) ==
    /\ bundles = [g \in Bundles |->
                    IF g = "doc" THEN NewBundle(StrQname("default"), NoQname, None)
                    ELSE NoBundle]
    /\ records = [r \in rs |-> NoRecord]
    /\ defaultnamespace \in defaults
    /\ _nsdict \in tables
    /\ dictorder \in orders
    /\ lastcall = Call("PROVContainer", "doc", <<None>>, "doc", FALSE)
    /\ mergesteps = <<>>
    /\ nencodes = 0

InitWith(orders, defaults, tables) == InitHeap(RecordIds, orders, defaults, tables)

\* PROVContainer()
Init == InitWith({<<"default">> \o PrefixKeys}, {None}, {EmptyDict})

Next ==
    \/ \E g \in DocBundles, cls \in DocElementClasses, i \in ElementIdents :
          Call_add_element(g, cls, i, None)
    \/ \E g \in DocBundles, e \in RecordIds, i \in RelationIdents :
          Call_add_wasGeneratedBy(g, e, e, i, None)
    \/ \E a \in DocAccounts : Call_add_account("doc", a, AccountIdentifier(a), Asserter)
    \/ \E g \in DocBundles : Call_empty(g)
    \/ Call_to_provJSON

Spec == Init /\ [][Next]_vars

\* every key of the prefix table has a place in the iteration order
OrderCovers == DOMAIN _nsdict \subseteq SeqToSet(dictorder)

-----------------------------------------------------------------------------
(* What the properties speak about.                                        *)

\* the graphs of the document: the container and the accounts reached from it
\* through the account lists
RECURSIVE Reached(_, _, _)
Reached(B, gs, n) ==
    IF n = 0 THEN gs
    ELSE Reached(B, gs \cup {a \in Accounts : \E g \in gs : InSeq(a, B[g]._accountlist)},
                 n - 1)

DocumentBundles(B) == Reached(B, {"doc"}, Cardinality(Accounts))

\* the records in the sequences of graph g
Members(B, g) == SeqToSet(B[g]._elementlist) \cup SeqToSet(B[g]._relationlist)

\* the records attached to the document
Attached(B) == UNION {Members(B, g) : g \in DocumentBundles(B)}

\* the last call was a to_provJSON that returned
JustEncoded == lastcall.op = "to_provJSON" /\ ~lastcall.raised

\* the heap of a freshly constructed document with the same content: nothing
\* has been encoded, so no output, no cached identifier and no counter exists
FreshBundles(B) ==
    [g \in DOMAIN B |->
        [B[g] EXCEPT !._provcontainer = EmptyDict, !._elementkey = 0,
                     !._relationkey = 0, !._auto_ns_key = 0, !._idJSON = None]]

FreshRecords(R) ==
    [r \in DOMAIN R |-> [R[r] EXCEPT !._idJSON = None, !._json = EmptyDict]]

\* to_provJSON() of the fresh document with the current content
FreshEncode ==
    to_provJSON(FreshBundles(bundles), FreshRecords(records), dictorder,
                defaultnamespace, EmptyDict)

\* the record sections of the output of an encode E: everything but 'prefix'
Sections(E) ==
    [k \in DOMAIN E.B["doc"]._provcontainer \ {"prefix"} |->
        E.B["doc"]._provcontainer[k]]

-----------------------------------------------------------------------------
(* Properties of the document specification.                               *)

\* C1: when to_provJSON is called twice in a row with nothing done in
\* between, the second output has the same prefix section as the first and
\* every attached record has the identifier the first call gave it.
C1_StableOverEncodes ==
    [][(JustEncoded /\ JustEncoded' /\ nencodes' = nencodes + 1) =>
          /\ bundles'["doc"]._provcontainer["prefix"]
                = bundles["doc"]._provcontainer["prefix"]
          /\ \A r \in Attached(bundles) : records'[r]._idJSON = records[r]._idJSON]_vars

\* C2: after an encode, two different records of one graph of the document
\* never have the same output identifier, whatever identifiers the calls
\* that built them supplied.
C2_UniqueIds ==
    JustEncoded =>
        \A g \in DocumentBundles(bundles) :
            \A r1, r2 \in Members(bundles, g) :
                r1 # r2 => records[r1]._idJSON # records[r2]._idJSON

\* C3: the record sections an encode returns are those a freshly constructed
\* document with the same current content returns: nothing an earlier encode
\* produced is left in them.
C3_FreshOutput ==
    JustEncoded => Sections([B |-> bundles]) = Sections(FreshEncode)

-----------------------------------------------------------------------------
(* The attachment specification: records and accounts are constructed,     *)
(* detached or with an owner, and handed to add on any graph.              *)

\* an account may carry the identifier "default" that the container has
AddIdentifiers == {StrQname("acc"), StrQname("default")}
Owners == {None} \cup DocBundles

\* the record a relation refers to: the one constructed first
FirstRecord == FreeRecord([r \in RecordIds |-> NoRecord])

NextAdd ==
    \/ \E acc \in Owners : Construct_Element("Entity", StrIdent("e1"), acc)
    \/ \E acc \in Owners :
          Construct_Relation("wasGeneratedBy", NoIdent, FirstRecord, FirstRecord, acc)
    \/ \E a \in DocAccounts, i \in AddIdentifiers : Construct_Account(a, i, Asserter, None)
    \/ \E g \in DocBundles, r \in RecordIds : Call_add(g, r)

SpecAdd == Init /\ [][NextAdd]_vars

\* how often record r occurs in the element and relation sequences of all graphs
Occurrences(B, r) ==
    Cardinality(
        {p \in UNION {({g} \X {"_elementlist"} \X DOMAIN B[g]._elementlist)
                         \cup ({g} \X {"_relationlist"} \X DOMAIN B[g]._relationlist) :
                      g \in Bundles} :
            B[p[1]][p[2]][p[3]] = r})

\* C9: whatever add calls were made, a record that is in some graph's
\* sequence occurs there exactly once, over the sequences of all graphs.
C9_ExactlyOnce ==
    \A r \in RecordIds : Occurrences(bundles, r) <= 1

\* the last call was B.add(r) for a record r that graph A owned, A not B
AddToOther(r, A, B) ==
    /\ lastcall.op = "add" /\ ~lastcall.raised
    /\ lastcall.self = B /\ lastcall.args = <<r, A>>
    /\ A # B

InGraph(B, g, r) == InSeq(r, B[g]._elementlist) \/ InSeq(r, B[g]._relationlist)

\* C10 as stated: if r is owned by graph A and B.add(r) is called on another
\* graph B, then r is in B's sequence, not in A's, and r's owner is B.
C10_Reparented ==
    \A r \in RecordIds, A, B \in Bundles :
        AddToOther(r, A, B) =>
            /\ InGraph(bundles, B, r)
            /\ ~InGraph(bundles, A, r)
            /\ records[r].account = B

\* C10 amended: if r is owned by graph A and B.add(r) is called on a graph B
\* whose identifier differs from A's, the call is handed to A: r is in A's
\* sequence, not in B's, and r's owner is still A.
C10_Delegated ==
    \A r \in RecordIds, A, B \in Bundles :
        (AddToOther(r, A, B)
            /\ bundles[A].identifier.name # bundles[B].identifier.name) =>
            /\ InGraph(bundles, A, r)
            /\ ~InGraph(bundles, B, r)
            /\ records[r].account = A

\* C10 witness: an account's add has just been called with a relation that the
\* container owns.
C10_Witness ==
    \E r \in RecordIds, B \in Accounts :
        /\ AddToOther(r, "doc", B)
        /\ IsRelation(records, r)
        /\ bundles[B].identifier.name # bundles["doc"].identifier.name

-----------------------------------------------------------------------------
(* The namespace specification: entities identified by qualified names,    *)
(* a namespace declared on the container or on an account, a default       *)
(* namespace that is set and cleared, and encodes, under either iteration  *)
(* order of the dicts.                                                     *)

\* the qualified names of the identifiers: one preferred prefix, two namespaces
NsQnames == {PROVNamespace("ex", URI_A, "e1"), PROVNamespace("ex", URI_B, "e1")}

NsDefaults == {None, URI_A, URI_C}

InitNs == InitWith(DictOrders, {None}, {EmptyDict})

NextNs ==
    \/ \E q \in NsQnames : Call_add_element("doc", "Entity", QnIdent(q), None)
    \/ \E g \in DocBundles : Call_add_namespace(g, "ex", TRUE, URI_A)
    \/ \E uri \in NsDefaults : Call_set_default_namespace(uri)
    \/ \E a \in DocAccounts : Call_add_account("doc", a, AccountIdentifier(a), Asserter)
    \/ Call_to_provJSON

SpecNs == InitNs /\ [][NextNs]_vars

\* every binding of dict d1 is a binding of dict d2
SubDict(d1, d2) == \A p \in DOMAIN d1 : p \in DOMAIN d2 /\ d2[p] = d1[p]

\* the 'prefix' object of the output of an encode E
Prefixes(E) == E.B["doc"]._provcontainer["prefix"]

\* the table T was built from the current content alone: F is the encode of
\* the fresh document
BuiltFromContent(T, F) == ~F.raised => SubDict(T, Prefixes(F))

\* C4: every binding of the prefix table an encode emits is one that the
\* current default namespace, declared namespaces and records give: the
\* fresh document with the same content emits it too.
C4_TableFromContent ==
    JustEncoded => BuiltFromContent(Prefixes([B |-> bundles]), FreshEncode)

\* the synthetic prefix nsN
Synthetic(n) == "ns" \o ToString(n)

\* q's preferred prefix is bound in dict d, to another namespace than q's
Conflicts(q, d) == q.prefix \in DOMAIN d /\ d[q.prefix] # q.namespacename

\* dict after is dict before with q's namespace bound to the first unused nsN
BoundToFirstUnused(q, before, after) ==
    \E n \in 0..Cardinality(DOMAIN before) :
        /\ Synthetic(n) \notin DOMAIN before
        /\ \A m \in 0..(n - 1) : Synthetic(m) \in DOMAIN before
        /\ after = DictSet(before, Synthetic(n), q.namespacename)

\* one merge of a qualified name, as C5 wants it
MergeStepOk(s) ==
    /\ SubDict(s.before, s.after)
    /\ (Conflicts(s.q, s.before) /\ s.q.namespacename # defaultnamespace) =>
           ~s.raised /\ BoundToFirstUnused(s.q, s.before, s.after)

\* C5: no merge of a qualified name in the last build of the prefix table
\* rebound a bound prefix, and a name whose preferred prefix was bound to
\* another namespace, its own not being the default namespace, was bound
\* to the first nsN that was not in use.
C5_NeverRebinds ==
    lastcall.op = "to_provJSON" =>
        \A i \in DOMAIN mergesteps : MergeStepOk(mergesteps[i])

\* the records of the document in the order the build walks them
RECURSIVE Walk(_, _, _)
RECURSIVE WalkAll(_, _, _)
Walk(B, g, n) ==
    B[g]._elementlist \o B[g]._relationlist
        \o (IF n = 0 THEN <<>> ELSE WalkAll(B, B[g]._accountlist, n - 1))

WalkAll(B, as, n) ==
    IF as = <<>> THEN <<>> ELSE Walk(B, Head(as), n) \o WalkAll(B, Tail(as), n)

Identifiers(R, rs) == [i \in DOMAIN rs |-> R[rs[i]].identifier]

\* the identifiers with preferred prefix P, in document order
WithPrefix(B, R, P) ==
    SelectSeq(Identifiers(R, Walk(B, "doc", Cardinality(Accounts))),
              LAMBDA q : q.prefix = P)

\* the names qs, all of preferred prefix P, are of the two namespaces first
\* and other, first met first; no graph declares P and neither namespace is
\* the default namespace
Clash(B, qs, P, first, other) ==
    /\ qs # <<>> /\ qs[1].namespacename = first
    /\ first # other
    /\ {qs[i].namespacename : i \in DOMAIN qs} = {first, other}
    /\ \A g \in DocumentBundles(B) : P \notin DOMAIN B[g]._namespacedict
    /\ defaultnamespace \notin {first, other}

\* C6: when the qualified names of a document are of two namespaces that share
\* the preferred prefix "ex", which no graph declares, the build of the prefix
\* table completes and binds "ex" to the namespace met first and "ns0" to the
\* other one.
C6_FirstKeepsPrefix ==
    \A first, other \in {URI_A, URI_B} :
        (lastcall.op = "to_provJSON"
            /\ Clash(bundles, WithPrefix(bundles, records, "ex"), "ex", first, other)) =>
            /\ ~lastcall.raised
            /\ SubDict([p \in {"ex", "ns0"} |-> IF p = "ex" THEN first ELSE other],
                       _nsdict)

\* in dict d, no prefix but "default" is bound to the namespace U
OnlyDefault(d, U) == \A p \in DOMAIN d : d[p] = U => p = "default"

\* C7: after an encode of a document with default namespace U, "default" is
\* the only prefix that the prefix table and the emitted 'prefix' object bind
\* to U.
C7_DefaultElided ==
    (JustEncoded /\ defaultnamespace # None) =>
        /\ OnlyDefault(_nsdict, defaultnamespace)
        /\ OnlyDefault(bundles["doc"]._provcontainer["prefix"], defaultnamespace)

\* C7 witness: an encode returned for a document whose default namespace is
\* also declared under the prefix "ex" and is the namespace of an identifier.
C7_Witness ==
    /\ JustEncoded /\ defaultnamespace = URI_A
    /\ \E g \in DocumentBundles(bundles) :
          "ex" \in DOMAIN bundles[g]._namespacedict
              /\ bundles[g]._namespacedict["ex"] = URI_A
    /\ \E r \in Attached(bundles) : records[r].identifier.namespacename = URI_A
    /\ bundles["doc"]._provcontainer["prefix"]["default"] = URI_A

-----------------------------------------------------------------------------
(* The resolution specification: PROVQname.qname applied to a qualified    *)
(* name and a prefix table, both drawn from small sets.                    *)

TablePrefixes == {"default", "ex", "ns0"}

\* every dict that binds some of the prefixes to one of two namespaces
Tables == UNION {[S -> {URI_A, URI_B}] : S \in SUBSET TablePrefixes}

\* qualified names with and without a preferred prefix, and a plain name
Qnames == {PROVNamespace("ex", URI_A, "x"), PROVNamespace("ex", URI_B, "x"),
           PROVNamespace("ns0", URI_A, "x"), PROVQname(URI_A \o "x", None, URI_A, "x"),
           StrQname("x")}

InitQname == InitWith(DictOrders, {None}, Tables)

\* q.qname(nsdict), nsdict being the table of the state
Call_qname(q) ==
    /\ lastcall' = Call("qname", q.name, <<q>>, qname(q, _nsdict, dictorder), FALSE)
    /\ UNCHANGED <<bundles, records, defaultnamespace, _nsdict, dictorder, mergesteps,
                   nencodes>>

NextQname == \E q \in Qnames : Call_qname(q)

SpecQname == InitQname /\ [][NextQname]_vars

\* rt is what resolving q against table T is to return
Resolves(q, T, rt) ==
    IF "default" \in DOMAIN T /\ T["default"] = q.namespacename
    THEN rt = q.localname
    ELSE IF \E p \in DOMAIN T : T[p] = q.namespacename
    THEN \E p \in DOMAIN T :
             T[p] = q.namespacename /\ rt = p \o ":" \o q.localname
    ELSE IF q.prefix # None
    THEN rt = q.prefix \o ":" \o q.localname
    ELSE rt = q.name

\* C8: qname returns the local part when the table binds "default" to the
\* name's namespace, else p:local for a prefix p the table binds to it, else
\* the preferred prefix with the local part, else the full name.
C8_Resolution ==
    lastcall.op = "qname" => Resolves(lastcall.args[1], _nsdict, lastcall.rt)

-----------------------------------------------------------------------------
(* The counters of a graph (727-737, 798-812).                             *)

\* the anonymous records of one kind in the sequences of graph g
Anonymous(B, R, g, fld) ==
    {r \in SeqToSet(B[g][fld]) : R[r].identifier = NoQname}

\* the generated identifiers of the anonymous records in sequence fld of g
\* were minted from counter values lo..(hi - 1), each record from its own
MintedFrom(B, R, g, fld, stem, lo, hi) ==
    /\ \A r \in Anonymous(B, R, g, fld) :
          \E k \in lo..(hi - 1) : R[r]._idJSON = stem \o ToString(k)
    /\ \A r, q \in Anonymous(B, R, g, fld) :
          r # q => R[r]._idJSON # R[q]._idJSON

\* a step of the last call leaves both counters of g at least where they were
KeysKept(g) ==
    /\ bundles'[g]._elementkey >= bundles[g]._elementkey
    /\ bundles'[g]._relationkey >= bundles[g]._relationkey

\* The counter specification: the calls that move a counter or read one, on
\* entities of one identifier and anonymous relations over them.
NextKeys ==
    \/ \E g \in DocBundles : Call_add_element(g, "Entity", StrIdent("e1"), None)
    \/ \E g \in DocBundles, e \in RecordIds :
          Call_add_wasGeneratedBy(g, e, e, NoIdent, None)
    \/ \E a \in DocAccounts : Call_add_account("doc", a, AccountIdentifier(a), Asserter)
    \/ \E g \in DocBundles : Call_empty(g)
    \/ Call_to_provJSON

SpecKeys == Init /\ [][NextKeys]_vars

\* C11 (as stated): the element counter and the relation counter of a graph
\* never decrease from one state to the next, whatever the operation.
C11_CountersNeverDecrease ==
    [][\A g \in Bundles : KeysKept(g)]_vars

\* C11 (amended): empty() sets both counters of its graph to 0; every other
\* operation leaves them at least where they were, and an encode gives the
\* anonymous records of a graph identifiers minted from the counter values
\* between the old and the new counter, a different one for each record.
C11_CountersResetOnlyByEmpty ==
    [][\A g \in Bundles :
          /\ IF lastcall'.op = "empty" /\ lastcall'.self = g
             THEN bundles'[g]._elementkey = 0 /\ bundles'[g]._relationkey = 0
             ELSE KeysKept(g)
          /\ (lastcall'.op = "to_provJSON" /\ ~lastcall'.raised
                 /\ g \in DocumentBundles(bundles)) =>
                /\ MintedFrom(bundles', records', g, "_relationlist", "_:RLAT",
                              bundles[g]._relationkey, bundles'[g]._relationkey)
                /\ MintedFrom(bundles', records', g, "_elementlist", "_:ELEM",
                              bundles[g]._elementkey, bundles'[g]._elementkey)
      ]_vars

\* C11: a second encode has minted an identifier from an advanced counter
C11_Witness ==
    /\ JustEncoded /\ nencodes = 2
    /\ \E g \in Bundles :
          /\ bundles[g]._relationkey >= 2
          /\ Anonymous(bundles, records, g, "_relationlist") # {}

-----------------------------------------------------------------------------
(* Anonymous records (220-229, 798-812, 382-390).                          *)

\* the calls that build a record and attach it
AddCalls == {"add_" \o cls : cls \in ElementClasses \cup RelationClasses}

\* nothing of the document has been encoded yet
NeverEncoded(B, R) ==
    /\ \A g \in Bundles : B[g]._idJSON = None /\ B[g]._provcontainer = EmptyDict
                          /\ B[g]._elementkey = 0 /\ B[g]._relationkey = 0
    /\ \A r \in DOMAIN R : R[r]._idJSON = None

\* how many anonymous records stand before place i of sequence s
AnonymousBefore(R, s, i) ==
    Cardinality({j \in 1..(i - 1) : R[s[j]].identifier = NoQname})

\* the anonymous records of sequence fld of graph g carry stem0, stem1, ... in
\* the order of the sequence
NumberedInOrder(B, R, g, fld, stem) ==
    \A i \in DOMAIN B[g][fld] :
        R[B[g][fld][i]].identifier = NoQname =>
            R[B[g][fld][i]]._idJSON =
                stem \o ToString(AnonymousBefore(R, B[g][fld], i))

\* relation r of graph g is in the output of g under "wasGeneratedBy" and its
\* own id, with the ids of its entity and activity
EmittedGeneration(B, R, g, r) ==
    /\ "wasGeneratedBy" \in DOMAIN B[g]._provcontainer
    /\ R[r]._idJSON \in DOMAIN B[g]._provcontainer["wasGeneratedBy"]
    /\ B[g]._provcontainer["wasGeneratedBy"][R[r]._idJSON] =
          [k \in {"prov:entity", "prov:activity"} |->
              IF k = "prov:entity" THEN R[R[r].entity]._idJSON
              ELSE R[R[r].activity]._idJSON]

\* C12: an add_* call without identifier does not raise, for an element as
\* for a relation, and the first encode of a freshly built document numbers
\* the anonymous elements of each graph _:ELEM0, _:ELEM1, ... and its
\* anonymous relations _:RLAT0, _:RLAT1, ... in insertion order, each
\* wasGeneratedBy emitted with the ids of its entity and its activity.
C12_AnonymousRecords ==
    [][/\ (lastcall'.op \in AddCalls /\ lastcall'.args = <<None>>) =>
              ~lastcall'.raised
       /\ (lastcall'.op = "to_provJSON" /\ NeverEncoded(bundles, records)) =>
              /\ ~lastcall'.raised
              /\ \A g \in DocumentBundles(bundles') :
                    /\ NumberedInOrder(bundles', records', g, "_elementlist", "_:ELEM")
                    /\ NumberedInOrder(bundles', records', g, "_relationlist", "_:RLAT")
                    /\ \A r \in Anonymous(bundles', records', g, "_relationlist") :
                          EmittedGeneration(bundles', records', g, r)
      ]_vars

-----------------------------------------------------------------------------
(* Identifier conflicts at construction time (814-832).                    *)

\* graph g holds a record whose explicit identifier is name
HoldsIdentifier(B, R, g, name) ==
    \E r \in Members(B, g) : R[r].identifier # NoQname /\ R[r].identifier.name = name

\* C15: an add_* call with an explicit id that is the explicit id of a record
\* already attached to the same graph raises, whether or not the document has
\* been encoded, and leaves the sequences of every graph as they were.
C15_DuplicateIdRejected ==
    [][(/\ lastcall'.op \in AddCalls
        /\ lastcall'.args # <<None>>
        /\ HoldsIdentifier(bundles, records, lastcall'.self, lastcall'.args[1]))
           => (lastcall'.raised /\ bundles' = bundles)
      ]_vars

-----------------------------------------------------------------------------
(* References of relations (382-390, 564-576).                             *)

\* the records relation r refers to
References(R, r) == {R[r].entity, R[r].activity}

\* the relations attached to the document that refer to a record attached
\* nowhere in it
Dangling(B, R) ==
    {r \in Attached(B) : IsRelation(R, r) /\ ~(References(R, r) \subseteq Attached(B))}

\* C16: an encode of a document in which a relation refers to a record that
\* is attached nowhere in the document does not return: whenever to_provJSON
\* has returned, every attached relation refers to attached records only.
C16_DanglingReferenceFails ==
    JustEncoded => Dangling(bundles, records) = {}

-----------------------------------------------------------------------------
(* The declaration specification: namespaces are declared on the container *)
(* and on an account under the prefixes a caller may pass, "default"       *)
(* included, as an interned str or as one built at run time (785-791).     *)

DeclPrefixes == {"default", "ex"}
DeclUris == {URI_A, URI_B}

InitDecl == InitWith(DictOrders, {None}, {EmptyDict})

NextDecl ==
    \/ \E g \in DocBundles, prefix \in DeclPrefixes, interned \in BOOLEAN,
          uri \in DeclUris : Call_add_namespace(g, prefix, interned, uri)
    \/ \E a \in DocAccounts : Call_add_account("doc", a, AccountIdentifier(a), Asserter)
    \/ \E g \in DocBundles : Call_empty(g)
    \/ \E g \in DocBundles, cls \in DocElementClasses :
          Call_add_element(g, cls, StrIdent("e1"), None)

SpecDecl == InitDecl /\ [][NextDecl]_vars

\* C17: add_namespace with the prefix "default" raises on any graph and
\* leaves every table as it was; with any other prefix it sets that entry of
\* the graph's table to the uri and changes nothing else.
C17_DefaultPrefixReserved ==
    [][lastcall'.op = "add_namespace" =>
          IF lastcall'.args[1] = "default"
          THEN lastcall'.raised /\ bundles' = bundles
          ELSE /\ ~lastcall'.raised
               /\ bundles' = [bundles EXCEPT ![lastcall'.self]._namespacedict =
                                 DictSet(@, lastcall'.args[1], lastcall'.args[2])]
               /\ UNCHANGED <<records, defaultnamespace, _nsdict>>
      ]_vars

-----------------------------------------------------------------------------
(* Attribute values and their JSON form (99-106, 119-120, 159-195,         *)
(* 654-677).  A Python value is Obj(t, v), t its type; JSON output is made  *)
(* of Python values as well: str, bool and list.                           *)

MaxArray == 2

\* the module's namespaces: xsd[localname], prov[localname]
xsd(localname) == PROVNamespace("xsd", XSD_URI, localname)
prov(localname) == PROVNamespace("prov", PROV_URI, localname)

PyNone == Obj("None", None)
PyStr(s) == Obj("str", s)
PyBool(b) == Obj("bool", b)
PyInt(n) == Obj("int", n)
\* a float with one decimal digit: whole + tenths / 10
PyFloat(whole, tenths) == Obj("float", [whole |-> whole, tenths |-> tenths])
PyDatetime(year, month, day, hour, minute, second) ==
    Obj("datetime", [year |-> year, month |-> month, day |-> day, hour |-> hour,
                     minute |-> minute, second |-> second])
PyList(items) == Obj("list", items)
PyLiteral(value, datatype) == Obj("PROVLiteral", [value |-> value, datatype |-> datatype])

\* isinstance(value, type): bool is a subclass of int
IsInstance(value, type) ==
    value.t = type \/ (type = "int" /\ value.t = "bool")

\* two decimal digits, as datetime.__str__ writes month, day and time
Pad2(n) == IF n < 10 THEN "0" \o ToString(n) ELSE ToString(n)

\* str(value)
PyStrOf(value) ==
    CASE value.t = "str"   -> value.v
      [] value.t = "bool"  -> IF value.v THEN "True" ELSE "False"
      [] value.t = "int"   -> ToString(value.v)
      [] value.t = "float" -> ToString(value.v.whole) \o "." \o ToString(value.v.tenths)
      [] value.t = "datetime" ->
            ToString(value.v.year) \o "-" \o Pad2(value.v.month) \o "-"
            \o Pad2(value.v.day) \o " " \o Pad2(value.v.hour) \o ":"
            \o Pad2(value.v.minute) \o ":" \o Pad2(value.v.second)

\* Record._get_type_JSON: every test is made, the last one that holds decides
_get_type_JSON(value) ==
    LET d1 == PyNone
        d2 == IF IsInstance(value, "float") THEN Obj("PROVQname", xsd("float")) ELSE d1
        d3 == IF IsInstance(value, "datetime")
              THEN Obj("PROVQname", xsd("dateTime")) ELSE d2
        d4 == IF IsInstance(value, "int") THEN Obj("PROVQname", xsd("integer")) ELSE d3
        d5 == IF IsInstance(value, "list") THEN Obj("PROVQname", prov("array")) ELSE d4
    IN  d5

\* PROVQname.to_provJSON
QnameToProvJSON(self, nsdict, order) ==
    PyList(<<PyStr(qname(self, nsdict, order)),
             PyStr(IF self.name = qname(self, nsdict, order)
                   THEN "xsd:anyURI" ELSE "xsd:QName")>>)

\* PROVLiteral.to_provJSON
LiteralToProvJSON(self, nsdict, order) ==
    PyList(<<IF self.value.t = "PROVQname"
             THEN PyStr(qname(self.value.v, nsdict, order)) ELSE self.value,
             IF self.datatype.t = "PROVQname"
             THEN PyStr(qname(self.datatype.v, nsdict, order)) ELSE self.datatype>>)

\* Record._convert_value_JSON
RECURSIVE _convert_value_JSON(_, _, _)
_convert_value_JSON(value, nsdict, order) ==
    IF value.t = "PROVLiteral" THEN LiteralToProvJSON(value.v, nsdict, order)
    ELSE IF value.t = "PROVQname" THEN QnameToProvJSON(value.v, nsdict, order)
    ELSE IF _get_type_JSON(value).t = "None" THEN value
    ELSE IF _get_type_JSON(value).v.name # prov("array").name
    THEN PyList(<<PyStr(PyStrOf(value)),
                  PyStr(qname(_get_type_JSON(value).v, nsdict, order))>>)
    ELSE IF \A i \in DOMAIN value.v : ~IsInstance(value.v[i], "list")
    THEN PyList(<<PyList([i \in DOMAIN value.v |->
                             _convert_value_JSON(value.v[i], nsdict, order)]),
                  PyStr(qname(_get_type_JSON(value).v, nsdict, order))>>)
    ELSE value      \* islist is True: valuetojson is still the argument

\* value = self._convert_value_JSON(value, nsdict), with the table and the
\* iteration order of the state
Call_convert_value_JSON(value) ==
    /\ lastcall' = Call("_convert_value_JSON", None, <<value>>,
                        _convert_value_JSON(value, _nsdict, dictorder), FALSE)
    /\ UNCHANGED <<bundles, records, defaultnamespace, _nsdict, dictorder,
                   mergesteps, nencodes>>

-----------------------------------------------------------------------------
(* The value specification: one attribute value after the other is         *)
(* converted under a prefix table of a document.                           *)

\* the values that are no arrays, by number
ScalarIndex == 1..10

Scalar(i) ==
    CASE i = 1 -> PyStr("x")
      [] i = 2 -> PyBool(TRUE)
      [] i = 3 -> PyBool(FALSE)
      [] i = 4 -> PyInt(7)
      [] i = 5 -> PyInt(0)
      [] i = 6 -> PyFloat(3, 5)
      [] i = 7 -> PyDatetime(2012, 1, 5, 9, 30, 0)
      [] i = 8 -> Obj("PROVQname", PROVNamespace("ex", URI_A, "e1"))
      [] i = 9 -> Obj("PROVQname", StrQname("e1"))
      [] i = 10 -> PyLiteral(PyStr("x"), Obj("PROVQname", xsd("string")))

\* the items of an array, by number: a scalar or an array of scalars
ItemIndex == 1..13

Item(i) ==
    CASE i \in ScalarIndex -> Scalar(i)
      [] i = 11 -> PyList(<<>>)
      [] i = 12 -> PyList(<<PyInt(7)>>)
      [] i = 13 -> PyList(<<PyStr("x"), PyBool(TRUE)>>)

\* sequences over S of at most n items
SeqsUpTo(S, n) == UNION {[1..k -> S] : k \in 0..n}

\* the array of the items numbered s[1], s[2], ...
ArrayOf(s) == PyList([k \in DOMAIN s |-> Item(s[k])])

\* the tables of a document without default namespace, of one whose default
\* namespace is the xsd namespace, and the empty table
ValueTables ==
    {_implicitnamespace, [p \in {"default", "prov"} |->
                             IF p = "prov" THEN PROV_URI ELSE XSD_URI], EmptyDict}

InitValue == InitWith(DictOrders, {None}, ValueTables)

NextValue ==
    \/ \E i \in ScalarIndex : Call_convert_value_JSON(Scalar(i))
    \/ \E s \in SeqsUpTo(ItemIndex, MaxArray) : Call_convert_value_JSON(ArrayOf(s))

SpecValue == InitValue /\ [][NextValue]_vars

-----------------------------------------------------------------------------
(* Properties of the value specification.                                  *)

\* the last call converted a value
Converted == lastcall.op = "_convert_value_JSON"

\* a == b for two Python values: values of different types are unequal
RECURSIVE PyEq(_, _)
PyEq(a, b) ==
    /\ a.t = b.t
    /\ IF a.t = "list"
       THEN /\ Len(a.v) = Len(b.v)
            /\ \A i \in DOMAIN a.v : PyEq(a.v[i], b.v[i])
       ELSE a.v = b.v

\* [string(value), tag]
Tagged(value, tag) == PyList(<<PyStr(PyStrOf(value)), PyStr(tag)>>)

\* C18: a str or a bool is converted to itself, with no type tag; an int n to
\* [str(n), "xsd:integer"]; a float to [str(value), "xsd:float"]; a datetime
\* to a pair whose tag is "xsd:dateTime".  A bool is never tagged an integer.
C18_ScalarEncoding ==
    Converted =>
        LET value == lastcall.args[1]
            rt == lastcall.rt
        IN  /\ value.t \in {"str", "bool"} => PyEq(rt, value)
            /\ value.t = "int" => PyEq(rt, Tagged(value, "xsd:integer"))
            /\ value.t = "float" => PyEq(rt, Tagged(value, "xsd:float"))
            /\ value.t = "datetime" =>
                  /\ rt.t = "list" /\ Len(rt.v) = 2
                  /\ PyEq(rt.v[2], PyStr("xsd:dateTime"))

\* an array has an item that is an array itself
Nested(value) == \E i \in DOMAIN value.v : IsInstance(value.v[i], "list")

\* the items of a sequence of values with every array among them replaced by
\* its own items
RECURSIVE Flatten(_)
Flatten(items) ==
    IF items = <<>> THEN <<>>
    ELSE (IF IsInstance(Head(items), "list") THEN Head(items).v ELSE <<Head(items)>>)
         \o Flatten(Tail(items))

\* C19: an array of non-arrays is converted to [[the conversion of each item],
\* "prov:array"]; an array with an array among its items is converted as the
\* array of its items flattened by one level is, so that every inner value
\* appears converted and none raw.
C19_ArrayEncoding ==
    (Converted /\ lastcall.args[1].t = "list") =>
        LET value == lastcall.args[1]
            rt == lastcall.rt
        IN  IF ~Nested(value)
            THEN PyEq(rt, PyList(<<PyList([i \in DOMAIN value.v |->
                                      _convert_value_JSON(value.v[i], _nsdict, dictorder)]),
                                   PyStr(qname(prov("array"), _nsdict, dictorder))>>))
            ELSE PyEq(rt, _convert_value_JSON(PyList(Flatten(value.v)), _nsdict,
                                              dictorder))

-----------------------------------------------------------------------------
(* The nesting specification: accounts are nested in the container and in  *)
(* one another, under identifiers that may coincide; entities are built for *)
(* an owner and handed to any graph, relations refer to any record, and the *)
(* document is encoded.                                                    *)

\* one record more than in the document specification: an entity, a relation
\* over it and a relation over that relation
NestRecordIds == {"r" \o ToString(i) : i \in 1..(MaxRecords + 1)}

InitNest == InitHeap(NestRecordIds, {<<"default">> \o PrefixKeys}, {None}, {EmptyDict})

NextNest ==
    \/ \E g \in Bundles, acc \in {None} \cup Accounts :
          Call_add_element(g, "Entity", StrIdent("e1"), acc)
    \/ \E g \in Bundles, e \in NestRecordIds :
          Call_add_wasGeneratedBy(g, e, e, NoIdent, None)
    \/ \E g \in Bundles, a \in Accounts, i \in AddIdentifiers :
          /\ a = "a1" \/ bundles["a1"].alive
          /\ Call_add_account(g, a, i, Asserter)
    \/ Call_to_provJSON

SpecNest == InitNest /\ [][NextNest]_vars

-----------------------------------------------------------------------------
(* Properties of the nesting specification.                                *)

\* the elements that belong to account a: built with a as owner, or attached
\* through a with no owner
ElementsOf(R, a) == {r \in DOMAIN R : R[r].alive /\ IsElement(R, r) /\ R[r].account = a}

\* element r is in the output of graph p inside the fragment of account a:
\* under "account", the id of a, the keyword of r's class and the id of r
InFragment(B, R, p, a, r) ==
    /\ "account" \in DOMAIN B[p]._provcontainer
    /\ B[a]._idJSON \in DOMAIN B[p]._provcontainer["account"]
    /\ Keyword(R[r].cls) \in DOMAIN B[p]._provcontainer["account"][B[a]._idJSON]
    /\ R[r]._idJSON \in
          DOMAIN B[p]._provcontainer["account"][B[a]._idJSON][Keyword(R[r].cls)]

\* C13: once to_provJSON has returned, an element that belongs to an account
\* of the document is emitted inside the fragment of that account in the
\* output of the graph the account is nested in, and is not one of the
\* elements the container emits in its own top-level sections.
C13_EmittedInAccountOnly ==
    JustEncoded =>
        \A a \in DocumentBundles(bundles) \ {"doc"} :
            \A r \in ElementsOf(records, a) :
                /\ \E p \in DocumentBundles(bundles) :
                      InSeq(a, bundles[p]._accountlist)
                      /\ InFragment(bundles, records, p, a, r)
                /\ ~InSeq(r, bundles["doc"]._elementlist)

\* the accounts in the nesting of graph g
Nesting(B, g) == Reached(B, {g}, Cardinality(Accounts)) \ {g}

\* C14: add_account on a graph with the identifier of an account that is
\* already in the nesting of that graph raises and leaves the account
\* sequence of every graph as it was.
C14_DuplicateAccountRejected ==
    [][(/\ lastcall'.op = "add_account"
        /\ \E a \in Nesting(bundles, lastcall'.self) :
              bundles[a].identifier.name = lastcall'.args[1])
           => /\ lastcall'.raised
              /\ \A g \in Bundles : bundles'[g]._accountlist = bundles[g]._accountlist
      ]_vars

\* what graph g emitted for the reference field of relation r
EmittedReference(B, R, g, r, field) ==
    B[g]._provcontainer["wasGeneratedBy"][R[r]._idJSON][field]

\* relation r of graph g is in the output of g under its own id
EmittedRelation(B, R, g, r) ==
    /\ "wasGeneratedBy" \in DOMAIN B[g]._provcontainer
    /\ R[r]._idJSON \in DOMAIN B[g]._provcontainer["wasGeneratedBy"]

\* C20: once to_provJSON has returned, every relation of every graph of the
\* document is in the output with reference fields that are the ids under
\* which the records it refers to are emitted in that output, whether the
\* record referred to is an element or an anonymous relation, of the same
\* graph or of another one of the document.
C20_ReferencesResolved ==
    JustEncoded =>
        \A g \in DocumentBundles(bundles) :
            \A r \in SeqToSet(bundles[g]._relationlist) :
                References(records, r) \subseteq Attached(bundles) =>
                    /\ EmittedRelation(bundles, records, g, r)
                    /\ EmittedReference(bundles, records, g, r, "prov:entity")
                          = records[records[r].entity]._idJSON
                    /\ EmittedReference(bundles, records, g, r, "prov:activity")
                          = records[records[r].activity]._idJSON

-----------------------------------------------------------------------------
(* One generated id per anonymous record and encode (739-783).             *)

\* how many entries of sequence fld of graph g are anonymous records
AnonymousCount(B, R, g, fld) ==
    Cardinality({i \in DOMAIN B[g][fld] : R[B[g][fld][i]].identifier = NoQname})

\* the ids the counter of a graph can have produced up to value key
GeneratedIds(stem, key) == {stem \o ToString(k) : k \in 0..(key - 1)}

\* the first encode of graph g advanced the counter of sequence fld once for
\* each anonymous record of the sequence
AdvancedOncePerRecord(g, fld, key) ==
    bundles'[g][key] = AnonymousCount(bundles, records, g, fld)

\* C21: in the first encode of a freshly built document, where no generated
\* id can collide, each counter of each graph of the document, at any depth,
\* advances by exactly the number of anonymous records the graph owns; a
\* record with an explicit id gets no generated id; and no generated id is
\* left on a record once the encode has returned.
C21_GeneratedOncePerEncode ==
    [][(lastcall'.op = "to_provJSON" /\ ~lastcall'.raised
           /\ NeverEncoded(bundles, records)) =>
          \A g \in DocumentBundles(bundles) :
              /\ AdvancedOncePerRecord(g, "_elementlist", "_elementkey")
              /\ AdvancedOncePerRecord(g, "_relationlist", "_relationkey")
              /\ \A r \in Members(bundles, g) :
                    IF records[r].identifier = NoQname
                    THEN records'[r]._idJSON = None
                    ELSE records'[r]._idJSON \notin
                            GeneratedIds("_:ELEM", bundles'[g]._elementkey)
                               \cup GeneratedIds("_:RLAT", bundles'[g]._relationkey)
      ]_vars

\* C21 (counters only): the first encode of a freshly built document advances
\* each counter of each of its graphs once per anonymous record of the graph
C21_CountersOnly ==
    [][(lastcall'.op = "to_provJSON" /\ ~lastcall'.raised
           /\ NeverEncoded(bundles, records)) =>
          \A g \in DocumentBundles(bundles) :
              /\ AdvancedOncePerRecord(g, "_elementlist", "_elementkey")
              /\ AdvancedOncePerRecord(g, "_relationlist", "_relationkey")
      ]_vars
-----------------------------------------------------------------------------
(* Generated ids against explicit ids of the same graph (766-823).         *)

\* the explicit identifiers that have the form of a generated one
ClashIdents == {StrIdent("_:RLAT0"), StrIdent("_:RLAT1")}

InitClash == InitHeap(NestRecordIds, {<<"default">> \o PrefixKeys}, {None}, {EmptyDict})

\* The clash specification: one graph, elements and relations with explicit
\* identifiers of the generated form, attached before or after the anonymous
\* relations (a relation with an explicit identifier is built by its
\* constructor and attached with add).
NextClash ==
    \/ \E i \in {StrIdent("e1")} \cup ClashIdents :
          Call_add_element("doc", "Entity", i, None)
    \/ \E e \in NestRecordIds : Call_add_wasGeneratedBy("doc", e, e, NoIdent, None)
    \/ \E e \in NestRecordIds, i \in ClashIdents :
          Construct_Relation("wasGeneratedBy", i, e, e, None)
    \/ \E r \in NestRecordIds : Call_add("doc", r)
    \/ Call_to_provJSON

SpecClash == InitClash /\ [][NextClash]_vars

\* C22: once to_provJSON has returned, the generated id of an anonymous
\* record differs from the id of every other record of the same graph,
\* whether that record stands before or after it in the graph's sequences and
\* whether its id is explicit or generated.
C22_GeneratedIdUnique ==
    JustEncoded =>
        \A g \in DocumentBundles(bundles) :
            \A r \in Members(bundles, g), q \in Members(bundles, g) :
                (records[r].identifier = NoQname /\ q # r) =>
                    records[r]._idJSON # records[q]._idJSON

\* C22 (records before): the same for the records whose id was resolved
\* before the anonymous relation was given its id: the elements of the graph
\* and the relations that stand before it
C22_UniqueAgainstEarlier ==
    JustEncoded =>
        \A g \in DocumentBundles(bundles) :
            \A i \in DOMAIN bundles[g]._relationlist :
                records[bundles[g]._relationlist[i]].identifier = NoQname =>
                    /\ \A q \in SeqToSet(bundles[g]._elementlist) :
                          records[q]._idJSON
                              # records[bundles[g]._relationlist[i]]._idJSON
                    /\ \A j \in 1..(i - 1) :
                          bundles[g]._relationlist[j] # bundles[g]._relationlist[i] =>
                              records[bundles[g]._relationlist[j]]._idJSON
                                  # records[bundles[g]._relationlist[i]]._idJSON
-----------------------------------------------------------------------------
(* What the relation construction methods return (861-959).                *)

\* no record of graph g has name as its explicit identifier or as its id
NoConflict(B, R, g, name) ==
    \A r \in Members(B, g) :
        /\ R[r]._idJSON # name
        /\ R[r].identifier # NoQname => R[r].identifier.name # name

\* the last call built relation r, appended it to the relations of its graph
\* and returned it
AttachedAndReturned(r) ==
    /\ ~records[r].alive /\ records'[r].alive /\ IsRelation(records', r)
    /\ bundles'[lastcall'.self]._relationlist =
          Append(bundles[lastcall'.self]._relationlist, r)
    /\ lastcall'.rt = r

\* C25: add_wasGeneratedBy, the pattern of the ten relation construction
\* methods, does not raise, appends one new relation to its graph and returns
\* it, both when called without identifier and when called with an explicit
\* identifier that conflicts with no record of the graph.
C25_RelationAttachedAndReturned ==
    [][(/\ lastcall'.op = "add_wasGeneratedBy"
        /\ \/ lastcall'.args = <<None>>
           \/ NoConflict(bundles, records, lastcall'.self, lastcall'.args[1]))
           => /\ ~lastcall'.raised
              /\ \E r \in DOMAIN records : AttachedAndReturned(r)
      ]_vars

\* C25 (without identifier): the same for the calls without identifier
C25_AnonymousAttachedAndReturned ==
    [][(lastcall'.op = "add_wasGeneratedBy" /\ lastcall'.args = <<None>>)
           => /\ ~lastcall'.raised
              /\ \E r \in DOMAIN records : AttachedAndReturned(r)
      ]_vars
-----------------------------------------------------------------------------
(* Synthetic prefixes of one encode (1031-1054).                           *)

\* two qualified names of one namespace, their preferred prefix declared for
\* another namespace on the container
SynthQnames == {PROVNamespace("ex", URI_B, "e1"), PROVNamespace("ex", URI_B, "e2"),
                PROVNamespace("ex", URI_A, "e1")}

SynthDefaults == {None, URI_C}

InitSynth == InitWith(DictOrders, {None}, {EmptyDict})

\* The synthetic-prefix specification: entities identified by qualified
\* names of prefix "ex", which the container declares for URI_A, with and
\* without a default namespace.
NextSynth ==
    \/ \E q \in SynthQnames : Call_add_element("doc", "Entity", QnIdent(q), None)
    \/ Call_add_namespace("doc", "ex", TRUE, URI_A)
    \/ \E uri \in SynthDefaults : Call_set_default_namespace(uri)
    \/ Call_to_provJSON

SpecSynth == InitSynth /\ [][NextSynth]_vars

\* the synthetic prefixes that dict d binds to namespace uri
SyntheticFor(d, uri) ==
    {p \in DOMAIN d : /\ d[p] = uri
                      /\ \E n \in 0..Cardinality(DOMAIN d) : p = Synthetic(n)}

\* C26: once to_provJSON has returned, every namespace that lost a prefix
\* conflict in the build of the prefix table (a qualified name of that
\* namespace was merged while its preferred prefix was bound to another
\* namespace, its own not being the default one) is bound to exactly one
\* synthetic prefix nsN, however many names of the namespace were merged.
C26_OneSyntheticPerNamespace ==
    JustEncoded =>
        \A i \in DOMAIN mergesteps :
            (/\ Conflicts(mergesteps[i].q, mergesteps[i].before)
             /\ mergesteps[i].q.namespacename # defaultnamespace)
                => Cardinality(SyntheticFor(_nsdict,
                                            mergesteps[i].q.namespacename)) = 1

\* C26 (at least one): the same with "at least one" for "exactly one"
C26_SomeSyntheticPerNamespace ==
    JustEncoded =>
        \A i \in DOMAIN mergesteps :
            (/\ Conflicts(mergesteps[i].q, mergesteps[i].before)
             /\ mergesteps[i].q.namespacename # defaultnamespace)
                => SyntheticFor(_nsdict, mergesteps[i].q.namespacename) # {}
-----------------------------------------------------------------------------
(* What the build of the prefix table reaches (1013-1046, 1074-1091).      *)

\* qualified names with a preferred prefix, for the identifier and the
\* asserter of an account, next to plain strings
ReachIdentifiers == {StrQname("acc"), PROVNamespace("ac", URI_B, "acc")}
ReachAsserters == {StrQname("asserter"), PROVNamespace("as", URI_C, "alice")}
ReachDefaults == {None, URI_A}

InitReach == InitWith(DictOrders, {None}, {EmptyDict})

\* The reach specification: an account whose identifier and asserter are
\* qualified names or strings, entities identified by a qualified name in
\* the container and in the account, with and without a default namespace.
NextReach ==
    \/ \E g \in DocBundles :
          Call_add_element(g, "Entity", QnIdent(PROVNamespace("ex", URI_A, "e1")), None)
    \/ \E a \in DocAccounts, i \in ReachIdentifiers, s \in ReachAsserters :
          Call_add_account("doc", a, i, s)
    \/ \E uri \in ReachDefaults : Call_set_default_namespace(uri)
    \/ Call_to_provJSON

SpecReach == InitReach /\ [][NextReach]_vars

\* the names that occur in the document as the id of a record
RecordQnames(B, R) == {R[r].identifier : r \in Attached(B)}

\* the names that occur as the id or the asserter of a nested account
AccountQnames(B) ==
    UNION {{B[a].identifier, B[a].asserter} : a \in DocumentBundles(B) \ {"doc"}}

\* dict d binds some prefix to the namespace of q, if q has a preferred
\* prefix and its namespace is not the default one
BindsNamespaceOf(d, q) ==
    (q.prefix # None /\ q.namespacename # defaultnamespace) =>
        \E p \in DOMAIN d : d[p] = q.namespacename

\* C23: once to_provJSON has returned, the prefix table binds some prefix to
\* the namespace of every qualified name with a preferred prefix that is the
\* id of a record of the document or the id or the asserter of a nested
\* account, unless that namespace is the default namespace.
C23_TableReachesEveryName ==
    JustEncoded =>
        \A q \in RecordQnames(bundles, records) \cup AccountQnames(bundles) :
            BindsNamespaceOf(_nsdict, q)

\* C23 (record ids): the same for the ids of the records alone
C23_TableReachesRecordIds ==
    JustEncoded =>
        \A q \in RecordQnames(bundles, records) : BindsNamespaceOf(_nsdict, q)
-----------------------------------------------------------------------------
(* The walk of the namespace merge over the graphs (1013-1030, 220-229).   *)

\* The walk specification: entities built with an owner (none, the
\* container or an account) and attached through the container or the first
\* account, accounts named "acc" or "default" nested in the container or in
\* the first account, and encodes.
NextWalk ==
    \/ \E g \in DocBundles, acc \in {None} \cup Bundles :
          Call_add_element(g, "Entity", StrIdent("e1"), acc)
    \/ \E g \in DocBundles, a \in Accounts, i \in AddIdentifiers :
          /\ a = "a1" \/ bundles["a1"].alive
          /\ Call_add_account(g, a, i, Asserter)
    \/ Call_to_provJSON

SpecWalk == Init /\ [][NextWalk]_vars

\* self._visitedrecord as the merge of the current document leaves it
VisitedRecord ==
    _create_nsdict(bundles, records, dictorder, defaultnamespace, _nsdict).visited

\* how many times the merge was called on graph g
Visits(visited, g) ==
    Cardinality({i \in DOMAIN visited : visited[i] = <<"Bundle", g>>})

\* the graphs that are the owner field of a record of graph g
OwnersIn(B, R, g) ==
    {a \in Bundles : \E r \in Members(B, g) : R[r]._attributelist[2] = Obj("Bundle", a)}

\* C24: the merge that an encode runs terminates with a visited list in
\* which every graph of the document stands exactly once and no graph stands
\* twice, also a graph that is both in the sub-graph sequence of its parent
\* and the owner field of a record, and whichever graph the owner fields of
\* an account's records name.
C24_EachGraphVisitedOnce ==
    [][lastcall'.op = "to_provJSON" =>
          /\ ~lastcall'.raised
          /\ \A g \in Bundles :
                /\ Visits(VisitedRecord, g) <= 1
                /\ g \in DocumentBundles(bundles) => Visits(VisitedRecord, g) = 1
      ]_vars

\* C24: an encode has returned on a document in which an account is reached
\* both through the account sequence of the container and through the owner
\* field of a record of the container, and a record of an account names the
\* container or the account itself as its owner
C24_Witness ==
    /\ JustEncoded
    /\ \E a \in Accounts :
          /\ InSeq(a, bundles["doc"]._accountlist)
          /\ a \in OwnersIn(bundles, records, "doc")
    /\ \E a \in DocumentBundles(bundles) \ {"doc"} :
          OwnersIn(bundles, records, a) \cap {"doc", a} # {}
=============================================================================
